---- MODULE Spec2Model ----
(***************************************************************************)
(* Growth-state update engine of the plant C-Space simulation              *)
(* (hooks/usePlantCSpace.ts, src/unnamed/part_000).                        *)
(*                                                                         *)
(* Numbers.  The hook computes with IEEE doubles; here every scalar field  *)
(* (energy, coherence, distortion, temporalComplexity, spatialComplexity,  *)
(* intensity, random draws) is a fixed-point integer in thousandths        *)
(* (Scale) and every coordinate a fixed-point integer in tenths of a unit  *)
(* (PosScale).  sqrt, log1p and tanh are computed by integer algorithms    *)
(* (Newton iteration, range reduction + Pade approximants).                *)
(*                                                                         *)
(* Randomness.  Math.random() is an oracle: a tick is handed, for every    *)
(* node of the snapshot, the two draws the callback of that node can       *)
(* consume (branch direction, growth gate), chosen from small sets.        *)
(*                                                                         *)
(* React.  Event handlers and timer callbacks run to completion; the       *)
(* re-render they cause and the effect cleanup/re-run that follows are     *)
(* part of the same step.                                                  *)
(***************************************************************************)
EXTENDS Integers, Sequences, FiniteSets, TLC

VARIABLES width, height, nodes, resources, paths, time, paused, timer

vars == <<width, height, nodes, resources, paths, time, paused, timer>>

-----------------------------------------------------------------------------
(* Fixed-point representation *)

Scale == 1000
PosScale == 10

(* Bounds of the model: the node collection is kept within MaxNodes in runs *)
(* from construction and within MaxStepNodes in runs from a mid-run         *)
(* collection; the tick counter is kept within MaxTime; a run from a        *)
(* mid-run collection makes StepTicks ticks                                 *)
MaxNodes == 3
MaxStepNodes == 4
MaxTime == 23
StepTicks == 2

(* Constants of the hook, in thousandths where they are real numbers *)
ALPHA == 50
BETA == 100
EPSILON_INV == 1000000000
D_CRITICAL == 2500
GROWTH_RATE == 5
MAX_ENERGY_DISTANCE == 200
COMPLEXITY_GRADIENT_SCALE == 10

Null == -1

-----------------------------------------------------------------------------
(* Arithmetic helpers standing for the JavaScript Math functions *)

Abs(a) == IF a < 0 THEN -a ELSE a

Max(a, b) == IF a >= b THEN a ELSE b

Min(a, b) == IF a <= b THEN a ELSE b

Sign(a) == IF a > 0 THEN 1 ELSE IF a < 0 THEN -1 ELSE 0

\* a / b rounded to the nearest integer (b > 0), symmetric around zero
Round(a, b) == IF a >= 0 THEN (2 * a + b) \div (2 * b) ELSE -((2 * (-a) + b) \div (2 * b))

\* fixed-point product a * b / Scale that does not overflow for large a
FMul(a, b) ==
    LET m == Abs(a)
        p == (m \div Scale) * b + ((m % Scale) * b) \div Scale
    IN  IF a < 0 THEN -p ELSE p

RECURSIVE SqrtIter(_, _)
SqrtIter(n, g) ==
    LET h == (g + n \div g) \div 2
    IN  IF h >= g THEN g ELSE SqrtIter(n, h)

\* Math.sqrt on integers: floor of the square root
Sqrt(n) == IF n <= 0 THEN 0 ELSE SqrtIter(n, Min(n, 46340))

LN2 == 693

\* ln(y / unit) in thousandths, for y >= unit > 0
RECURSIVE LnRatio(_, _)
LnRatio(y, unit) ==
    IF y >= 2 * unit
    THEN LN2 + LnRatio(y \div 2, unit)
    ELSE LET u == ((y - unit) * Scale) \div unit
         IN  (u * (6 * Scale + u)) \div (6 * Scale + 4 * u)

\* ln(n) in thousandths for an integer n >= 1
RECURSIVE LnInt(_)
LnInt(n) == IF n >= 2000000 THEN LN2 + LnInt(n \div 2) ELSE LnRatio(n * Scale, Scale)

\* Math.log1p(x) for x >= 0 in thousandths
Log1p(x) == LnRatio(Scale + x, Scale)

\* Math.tanh(x) for x >= 0 in thousandths
Tanh(x) ==
    IF x >= 3 * Scale THEN Scale
    ELSE LET x2 == (x * x) \div Scale
         IN  (x * (27 * Scale + x2)) \div (27 * Scale + 9 * x2)

\* Math.cos / Math.sin of r * 2 * PI for a draw r that is a quarter turn
Cos(r) == IF r = 0 THEN Scale ELSE IF r = 500 THEN -Scale ELSE 0

Sin(r) == IF r = 250 THEN Scale ELSE IF r = 750 THEN -Scale ELSE 0

\* Euclidean distance of two positions, in tenths of a unit
Distance(p, q) == Sqrt((p.x - q.x) * (p.x - q.x) + (p.y - q.y) * (p.y - q.y))

-----------------------------------------------------------------------------
(* Initialization effect: the seed node and the resource environment *)

\* len * tt / 10000 as a coordinate (tenths of a unit), e.g. width * 0.875
\* a variant of Seed placed at the centre of the canvas
SeedCentered(w, h) ==
    [id |-> 0,
     position |-> [x |-> (w * PosScale) \div 2, y |-> (h * PosScale) \div 2],
     energy |-> 500,
     coherence |-> 1000,
     distortion |-> 0,
     temporalComplexity |-> 0,
     spatialComplexity |-> 500,
     parent |-> Null,
     age |-> 0]

Frac(len, tt) == Round(len * PosScale * tt, 10000)

Seed(w, h) ==
    [id |-> 0,
     position |-> [x |-> (w * PosScale) \div 2, y |-> (h - 50) * PosScale],
     energy |-> 500,
     coherence |-> 1000,
     distortion |-> 0,
     temporalComplexity |-> 0,
     spatialComplexity |-> 500,
     parent |-> Null,
     age |-> 0]

Resource(px, py, i, t) == [position |-> [x |-> px, y |-> py], intensity |-> i, type |-> t]

FixedResources(w, h) ==
    << Resource(Frac(w, 8750), Frac(h, 2000), 1000, "light"),
       Resource(Frac(w, 5000), Frac(h, 5000), 700, "support"),
       Resource(Frac(w, 6250), Frac(h, 5000), 700, "support"),
       Resource(Frac(w, 7500), Frac(h, 5000), 700, "support"),
       Resource(Frac(w, 5000), Frac(h, 3330), 700, "support"),
       Resource(Frac(w, 6250), Frac(h, 3330), 700, "support"),
       Resource(Frac(w, 7500), Frac(h, 3330), 700, "support"),
       Resource(Frac(w, 3125), Frac(h, 7500), 900, "obstacle"),
       Resource(Frac(w, 4375), Frac(h, 6667), 800, "obstacle") >>

\* iterations of: for (y = h * 0.333; y <= h * 0.8333; y += h * 0.0333)
TrellisRows == {k \in 0..40 : 3330 + 333 * k <= 8333}

TrellisColumn(w, c) == IF c = 0 THEN Frac(w, 5000) ELSE IF c = 1 THEN Frac(w, 6250) ELSE Frac(w, 7500)

VerticalTrellis(w, h) ==
    [i \in 1..(3 * Cardinality(TrellisRows)) |->
        Resource(TrellisColumn(w, (i - 1) % 3), Frac(h, 3330 + 333 * ((i - 1) \div 3)), 600, "support")]

InitialResources(w, h) == FixedResources(w, h) \o VerticalTrellis(w, h)

-----------------------------------------------------------------------------
(* Environment field evaluator *)

DistSq(p, q) == (p.x - q.x) * (p.x - q.x) + (p.y - q.y) * (p.y - q.y)

\* distance < radius (radius in units); decided on the squares so that the
\* root is only taken for the resources in range
Within(p, q, radius) == DistSq(p, q) < (radius * PosScale) * (radius * PosScale)

\* 1 - distance / radius, in thousandths
Falloff(p, q, radius) == Scale - (Distance(p, q) * Scale) \div (radius * PosScale)

ComplexityTerm(pos, resource) ==
    IF Within(pos, resource.position, 100)
    THEN IF resource.type = "obstacle"
         THEN FMul(resource.intensity, Falloff(pos, resource.position, 100))
         ELSE IF resource.type = "support"
              THEN -(FMul(resource.intensity, Falloff(pos, resource.position, 100)) \div 2)
              ELSE 0
    ELSE 0

\* the terms of res[lo..hi] added up (with integers the grouping of the
\* terms does not change the sum)
RECURSIVE ComplexityTerms(_, _, _, _)
ComplexityTerms(pos, res, lo, hi) ==
    IF lo > hi THEN 0
    ELSE IF lo = hi THEN ComplexityTerm(pos, res[lo])
    ELSE ComplexityTerms(pos, res, lo, (lo + hi) \div 2)
         + ComplexityTerms(pos, res, (lo + hi) \div 2 + 1, hi)

\* let complexity = 0.5; resources.forEach(...) over res[1..k]
ComplexitySum(pos, res, k) == 500 + ComplexityTerms(pos, res, 1, k)

calculateSpatialComplexity(pos, res) == Max(100, Min(1000, ComplexitySum(pos, res, Len(res))))

EnergyTerm(pos, resource) ==
    IF resource.type = "light" /\ Within(pos, resource.position, MAX_ENERGY_DISTANCE)
    THEN LET f == Falloff(pos, resource.position, MAX_ENERGY_DISTANCE)
         IN  FMul(resource.intensity, FMul(f, f))
    ELSE 0

RECURSIVE EnergyTerms(_, _, _, _)
EnergyTerms(pos, res, lo, hi) ==
    IF lo > hi THEN 0
    ELSE IF lo = hi THEN EnergyTerm(pos, res[lo])
    ELSE EnergyTerms(pos, res, lo, (lo + hi) \div 2)
         + EnergyTerms(pos, res, (lo + hi) \div 2 + 1, hi)

\* let energy = 0.2; resources.forEach(...) over res[1..k]
EnergySum(pos, res, k) == 200 + EnergyTerms(pos, res, 1, k)

\* a variant of calculateEnergy without the upper clamp
calculateEnergyNoCeiling(pos, res) == Max(100, EnergySum(pos, res, Len(res)))

\* Math.max(0.1, Math.min(1.0, energy))
calculateEnergy(pos, res) == Max(100, Min(1000, EnergySum(pos, res, Len(res))))

\* forward finite difference with delta = 5 units; components in thousandths per unit
calculateSpatialGradient(pos, res) ==
    LET delta == 5
        s == calculateSpatialComplexity(pos, res)
        sx == calculateSpatialComplexity([x |-> pos.x + delta * PosScale, y |-> pos.y], res)
        sy == calculateSpatialComplexity([x |-> pos.x, y |-> pos.y + delta * PosScale], res)
    IN  [x |-> Round(sx - s, delta), y |-> Round(sy - s, delta)]

-----------------------------------------------------------------------------
(* Growth engine: the per-node step of the tick (the forEach callback) *)

\* a / b truncated toward zero, for any signs (b # 0)
Div(a, b) ==
    LET q == Abs(a) \div Abs(b)
    IN  IF (a < 0) # (b < 0) THEN -q ELSE q

\* dH, dD and dT of one node.  With coherence 0 the quotient
\* distortion / (coherence + EPSILON) is distortion * 1e9, beyond the
\* fixed-point range: dH is then a negative number of that order, log1p of
\* |dH| * E is taken on the integer ALPHA * distortion * E, and dT is 0
\* because Math.sign(0) = 0.
Deltas(node, E, gradient) ==
    LET gradS == Sqrt(gradient.x * gradient.x + gradient.y * gradient.y)
        gterm == FMul(gradS, COMPLEXITY_GRADIENT_SCALE)
    IN  IF node.coherence = 0 /\ node.distortion > 0
        THEN [dH |-> -EPSILON_INV,
              dD |-> FMul(LnInt(ALPHA * node.distortion) + LnInt(E), BETA),
              dT |-> 0]
        ELSE LET dD_dH == IF node.coherence = 0 THEN 0
                          ELSE Div(node.distortion * Scale, node.coherence)
                 dH == -FMul(dD_dH + gterm, ALPHA)
                 x == FMul(Abs(dH), E)
             IN  [dH |-> dH,
                  dD |-> FMul(Log1p(x), BETA),
                  dT |-> FMul(Tanh(x), BETA) * Sign(node.coherence)]

\* a variant of BaseUpdate that leaves the age as it was
BaseUpdateKeepsAge(node, S, E, d) ==
    [node EXCEPT !.coherence = Max(0, node.coherence + d.dH),
                 !.distortion = node.distortion + d.dD,
                 !.temporalComplexity = node.temporalComplexity + d.dT,
                 !.spatialComplexity = S,
                 !.energy = E]

\* a variant of BaseUpdate that stores H + dH without Math.max(0, ...)
BaseUpdateNoClamp(node, S, E, d) ==
    [node EXCEPT !.coherence = node.coherence + d.dH,
                 !.distortion = node.distortion + d.dD,
                 !.temporalComplexity = node.temporalComplexity + d.dT,
                 !.spatialComplexity = S,
                 !.energy = E,
                 !.age = node.age + 1]

\* a variant of BaseUpdate that takes dD off the distortion
BaseUpdateRelaxes(node, S, E, d) ==
    [node EXCEPT !.coherence = Max(0, node.coherence + d.dH),
                 !.distortion = node.distortion - d.dD,
                 !.temporalComplexity = node.temporalComplexity + d.dT,
                 !.spatialComplexity = S,
                 !.energy = E,
                 !.age = node.age + 1]

\* newNodes[index] = { ...node, coherence: ..., ..., age: node.age + 1 }
BaseUpdate(node, S, E, d) ==
    [node EXCEPT !.coherence = Max(0, node.coherence + d.dH),
                 !.distortion = node.distortion + d.dD,
                 !.temporalComplexity = node.temporalComplexity + d.dT,
                 !.spatialComplexity = S,
                 !.energy = E,
                 !.age = node.age + 1]

\* a variant of Inert that skips a node one tick later
InertLate(node) == node.age > 21

\* a variant of Inert that skips no node
InertNever(node) == FALSE

\* if (node.age > 20) return
Inert(node) == node.age > 20

\* a variant of NextId that forgets the nodes already collected in the tick
NextIdStale(prevNodes, nodesToAdd) == Len(prevNodes)

\* id: prevNodes.length + nodesToAdd.length
NextId(prevNodes, nodesToAdd) == Len(prevNodes) + Len(nodesToAdd)

\* a variant of ChildParent that keeps the parent field of the copied node
ChildParentCopied(node) == node.parent

\* a variant of ChildParent that is off by one
ChildParentOffByOne(node) == node.id + 1

\* parent: node.id
ChildParent(node) == node.id

\* the bound on activeNodeCount in the growth condition
ActiveCap == 50

\* a variant of nearbyNodes that leaves out the nodes at pos itself
nearbyNodesOthers(list, pos) ==
    SelectSeq(list, LAMBDA n : n.position # pos /\ Within(n.position, pos, 20))

\* prevNodes.filter(n => distance(n.position, pos) < 20)
nearbyNodes(list, pos) == SelectSeq(list, LAMBDA n : Within(n.position, pos, 20))

activeNodeCount(list) == Len(SelectSeq(list, LAMBDA n : n.age < 15))

\* a variant of BranchGuard without the crowding condition
BranchGuardIgnoresCrowding(list, node, E) ==
    /\ node.distortion > D_CRITICAL
    /\ E > 300
    /\ node.age > 5

BranchGuard(list, node, E) ==
    /\ node.distortion > D_CRITICAL
    /\ E > 300
    /\ node.age > 5
    /\ Len(nearbyNodes(list, node.position)) < 3

\* a variant of GrowthEligible without the bound on activeNodeCount
GrowthEligibleUncapped(list, node) ==
    /\ node.coherence > 200
    /\ node.age < 15

\* the first three conjuncts of the growth condition; Math.random() is only
\* called when they hold
GrowthEligible(list, node) ==
    /\ node.coherence > 200
    /\ node.age < 15
    /\ activeNodeCount(list) < ActiveCap

\* a variant of GrowthGate with the comparison turned around
GrowthGateInverted(draw) == draw < 500

\* Math.random() > 0.5
GrowthGate(draw) == draw > 500

GrowthGuard(list, node, draw) == GrowthEligible(list, node) /\ GrowthGate(draw)

\* a variant of StepLength five times as long
StepLengthLong(E) == 5 * GROWTH_RATE * (500 + E \div 2)

\* GROWTH_RATE * (0.5 + 0.5 * E), in thousandths of a unit
StepLength(E) == GROWTH_RATE * (500 + E \div 2)

\* a step of length len (thousandths of a unit) along a direction component
\* c (thousandths), as a coordinate offset in tenths of a unit
Offset(c, len) == Round(c * len, (Scale * Scale) \div PosScale)

\* a variant of BranchChild that copies the coherence and distortion of the node
BranchChildCopies(node, newId, S, E, draw) ==
    LET branchDistance == StepLength(E)
    IN  [id |-> newId,
         position |-> [x |-> node.position.x + Offset(Cos(draw), branchDistance),
                       y |-> node.position.y + Offset(Sin(draw), branchDistance)],
         energy |-> E,
         coherence |-> node.coherence,
         distortion |-> node.distortion,
         temporalComplexity |-> node.temporalComplexity,
         spatialComplexity |-> S,
         parent |-> ChildParent(node),
         age |-> 0]

BranchChild(node, newId, S, E, draw) ==
    LET branchDistance == StepLength(E)
    IN  [id |-> newId,
         position |-> [x |-> node.position.x + Offset(Cos(draw), branchDistance),
                       y |-> node.position.y + Offset(Sin(draw), branchDistance)],
         energy |-> E,
         coherence |-> 1000,
         distortion |-> 0,
         temporalComplexity |-> node.temporalComplexity,
         spatialComplexity |-> S,
         parent |-> ChildParent(node),
         age |-> 0]

\* the light-source attraction; nan records a light at distance 0 (0 / 0)
LightTerm(pos, resource) ==
    IF resource.type = "light" /\ Within(pos, resource.position, MAX_ENERGY_DISTANCE)
    THEN LET distance == Distance(pos, resource.position)
             weight == FMul(resource.intensity,
                            Falloff(pos, resource.position, MAX_ENERGY_DISTANCE))
         IN  IF distance = 0 THEN [x |-> 0, y |-> 0, nan |-> TRUE]
             ELSE [x |-> FMul(Div((resource.position.x - pos.x) * Scale, distance), weight),
                   y |-> FMul(Div((resource.position.y - pos.y) * Scale, distance), weight),
                   nan |-> FALSE]
    ELSE [x |-> 0, y |-> 0, nan |-> FALSE]

\* the terms of res[lo..hi] added up
RECURSIVE LightTerms(_, _, _, _)
LightTerms(pos, res, lo, hi) ==
    IF lo > hi THEN [x |-> 0, y |-> 0, nan |-> FALSE]
    ELSE IF lo = hi THEN LightTerm(pos, res[lo])
    ELSE LET a == LightTerms(pos, res, lo, (lo + hi) \div 2)
             b == LightTerms(pos, res, (lo + hi) \div 2 + 1, hi)
         IN  [x |-> a.x + b.x, y |-> a.y + b.y, nan |-> a.nan \/ b.nan]

\* let lightBiasX = 0, lightBiasY = 0; resources.forEach(...) over res[1..k]
LightBias(pos, res, k) == LightTerms(pos, res, 1, k)

\* the normalized growth direction, components in thousandths
GrowthDirection(pos, S, gradient, res) ==
    LET moveX == -gradient.x * 10 - 200
        moveY == -gradient.y * 10 - 600
        lightBias == LightBias(pos, res, Len(res))
        pureTimeFactor == Max(0, Scale - S * 2)
        dirX == moveX + FMul(lightBias.x * 2, pureTimeFactor)
        dirY == moveY + FMul(lightBias.y * 2, pureTimeFactor)
        magnitude == Sqrt(dirX * dirX + dirY * dirY)
    IN  IF lightBias.nan \/ magnitude = 0
        THEN [x |-> 0, y |-> -Scale]
        ELSE [x |-> Div(dirX * Scale, magnitude), y |-> Div(dirY * Scale, magnitude)]

\* a variant of GrowthChild whose temporalComplexity is the updated value
\* of the node advanced by dT once more
GrowthChildAdvancesTwice(node, newId, S, E, gradient, dT, res) ==
    LET dir == GrowthDirection(node.position, S, gradient, res)
        growth == StepLength(E)
    IN  [id |-> newId,
         position |-> [x |-> node.position.x + Offset(dir.x, growth),
                       y |-> node.position.y + Offset(dir.y, growth)],
         energy |-> E,
         coherence |-> node.coherence,
         distortion |-> node.distortion,
         temporalComplexity |-> node.temporalComplexity + 2 * dT,
         spatialComplexity |-> S,
         parent |-> ChildParent(node),
         age |-> 0]

\* a variant of GrowthChild that hands on the coherence and the distortion
\* of the base update
GrowthChildInheritsUpdated(node, newId, S, E, gradient, dT, res) ==
    LET dir == GrowthDirection(node.position, S, gradient, res)
        growth == StepLength(E)
        d == Deltas(node, E, gradient)
    IN  [id |-> newId,
         position |-> [x |-> node.position.x + Offset(dir.x, growth),
                       y |-> node.position.y + Offset(dir.y, growth)],
         energy |-> E,
         coherence |-> Max(0, node.coherence + d.dH),
         distortion |-> node.distortion + d.dD,
         temporalComplexity |-> node.temporalComplexity + dT,
         spatialComplexity |-> S,
         parent |-> ChildParent(node),
         age |-> 0]

GrowthChild(node, newId, S, E, gradient, dT, res) ==
    LET dir == GrowthDirection(node.position, S, gradient, res)
        growth == StepLength(E)
    IN  [id |-> newId,
         position |-> [x |-> node.position.x + Offset(dir.x, growth),
                       y |-> node.position.y + Offset(dir.y, growth)],
         energy |-> E,
         coherence |-> node.coherence,
         distortion |-> node.distortion,
         temporalComplexity |-> node.temporalComplexity + dT,
         spatialComplexity |-> S,
         parent |-> ChildParent(node),
         age |-> 0]

\* Field sampling and the deltas of one node (the first half of the callback,
\* which reads nothing but the node and the resources)
Sample(node, res) ==
    LET pos == node.position
        S == calculateSpatialComplexity(pos, res)
        E == calculateEnergy(pos, res)
        gradient == calculateSpatialGradient(pos, res)
    IN  [S |-> S, E |-> E, gradient |-> gradient, d |-> Deltas(node, E, gradient)]

NoSample == [S |-> 0, E |-> 0, gradient |-> [x |-> 0, y |-> 0], d |-> [dH |-> 0, dD |-> 0, dT |-> 0]]

\* the samples of prevNodes[1..k]; a node with age > 20 is skipped before sampling
Samples(prevNodes, res, k) ==
    [i \in 1..k |-> IF Inert(prevNodes[i]) THEN NoSample ELSE Sample(prevNodes[i], res)]

\* a variant of ProcessNodeAgainst whose branching condition reads the
\* distortion the base update has just stored
ProcessNodeBranchesOnUpdated(list, prevNodes, res, env, acc, index, draws) ==
    LET node == prevNodes[index]
    IN  IF Inert(node) THEN acc
        ELSE
        LET updated == BaseUpdate(node, env.S, env.E, env.d)
            afterBranch ==
                IF BranchGuard(list, [node EXCEPT !.distortion = updated.distortion], env.E)
                THEN [newNodes |-> [acc.newNodes EXCEPT ![index] = [updated EXCEPT !.distortion = 500]],
                      nodesToAdd |-> Append(acc.nodesToAdd,
                                            BranchChild(node, NextId(prevNodes, acc.nodesToAdd),
                                                        env.S, env.E, draws.dir))]
                ELSE [newNodes |-> [acc.newNodes EXCEPT ![index] = updated],
                      nodesToAdd |-> acc.nodesToAdd]
        IN  IF GrowthGuard(list, node, draws.gate)
            THEN [afterBranch EXCEPT
                    !.nodesToAdd = Append(@, GrowthChild(node, NextId(prevNodes, afterBranch.nodesToAdd),
                                                         env.S, env.E, env.gradient, env.d.dT, res))]
            ELSE afterBranch

\* The callback for prevNodes[index], with the two filters reading `list`.
\* acc = [newNodes, nodesToAdd] is what the earlier callbacks of the tick left;
\* env is the sample of the node.
ProcessNodeAgainst(list, prevNodes, res, env, acc, index, draws) ==
    LET node == prevNodes[index]
    IN  IF Inert(node) THEN acc
        ELSE
        LET updated == BaseUpdate(node, env.S, env.E, env.d)
            afterBranch ==
                IF BranchGuard(list, node, env.E)
                THEN [newNodes |-> [acc.newNodes EXCEPT ![index] = [updated EXCEPT !.distortion = 500]],
                      nodesToAdd |-> Append(acc.nodesToAdd,
                                            BranchChild(node, NextId(prevNodes, acc.nodesToAdd),
                                                        env.S, env.E, draws.dir))]
                ELSE [newNodes |-> [acc.newNodes EXCEPT ![index] = updated],
                      nodesToAdd |-> acc.nodesToAdd]
        IN  IF GrowthGuard(list, node, draws.gate)
            THEN [afterBranch EXCEPT
                    !.nodesToAdd = Append(@, GrowthChild(node, NextId(prevNodes, afterBranch.nodesToAdd),
                                                         env.S, env.E, env.gradient, env.d.dT, res))]
            ELSE afterBranch

\* a variant of ProcessNode whose filters read the list being built
ProcessNodeReadsWorking(prevNodes, res, env, acc, index, draws) ==
    ProcessNodeAgainst(acc.newNodes \o acc.nodesToAdd, prevNodes, res, env, acc, index, draws)

\* prevNodes.filter(...) in the callback reads the snapshot the updater was given
ProcessNode(prevNodes, res, env, acc, index, draws) ==
    ProcessNodeAgainst(prevNodes, prevNodes, res, env, acc, index, draws)

\* the callbacks for order[lo], ..., order[hi], run one after the other on
\* acc: the callbacks of the second half start on what those of the first
\* half have left (newNodes keeps the length of prevNodes throughout)
RECURSIVE ProcessRange(_, _, _, _, _, _, _, _)
ProcessRange(prevNodes, res, envs, r, order, acc, lo, hi) ==
    IF lo > hi THEN acc
    ELSE IF lo = hi
    THEN ProcessNode(prevNodes, res, envs[order[lo]], acc, order[lo], r[order[lo]])
    ELSE LET mid == (lo + hi) \div 2
             left == ProcessRange(prevNodes, res, envs, r, order, acc, lo, mid)
         IN  IF Len(left.newNodes) = Len(prevNodes)
             THEN ProcessRange(prevNodes, res, envs, r, order, left, mid + 1, hi)
             ELSE left

\* the callbacks for order[1], ..., order[k], starting from
\* newNodes = [...prevNodes] and nodesToAdd = []
ProcessInOrder(prevNodes, res, envs, r, order, k) ==
    ProcessRange(prevNodes, res, envs, r, order,
                 [newNodes |-> prevNodes, nodesToAdd |-> << >>], 1, k)

\* prevNodes.forEach visits the indices in ascending order
ForEachOrder(prevNodes) == [i \in 1..Len(prevNodes) |-> i]

\* a variant of TickSampled that returns [...nodesToAdd, ...newNodes]
TickSampledNewFirst(prevNodes, res, envs, r) ==
    LET acc == ProcessInOrder(prevNodes, res, envs, r, ForEachOrder(prevNodes), Len(prevNodes))
    IN  acc.nodesToAdd \o acc.newNodes

\* the setNodes updater on sampled fields: prevNodes => [...newNodes, ...nodesToAdd]
TickSampled(prevNodes, res, envs, r) ==
    LET acc == ProcessInOrder(prevNodes, res, envs, r, ForEachOrder(prevNodes), Len(prevNodes))
    IN  acc.newNodes \o acc.nodesToAdd

\* the setNodes updater
TickNodes(prevNodes, res, r) ==
    TickSampled(prevNodes, res, Samples(prevNodes, res, Len(prevNodes)), r)

-----------------------------------------------------------------------------
(* The random source *)

\* Math.random() * 2 * PI is drawn among the quarter turns
Dirs == {0, 250, 500, 750}

\* draws of the growth gate: below, at and above 0.5
Gates == {250, 500, 750}

NoDraw == [dir |-> 0, gate |-> 250]

\* the draws the callback of `node` can consume in a tick on `list`: one for
\* the branch direction if it branches, one for the growth gate (among
\* `gates`) if it is eligible; a draw that is not consumed is left at NoDraw
DrawsOf(list, env, node, gates) ==
    LET dirs == IF ~Inert(node) /\ BranchGuard(list, node, env.E) THEN Dirs ELSE {NoDraw.dir}
        used == IF ~Inert(node) /\ GrowthEligible(list, node) THEN gates ELSE {NoDraw.gate}
    IN  {[dir |-> a, gate |-> g] : a \in dirs, g \in used}

RECURSIVE DrawSeqs(_, _, _, _)
DrawSeqs(list, envs, gates, k) ==
    IF k = 0 THEN {<< >>}
    ELSE {Append(r, x) : r \in DrawSeqs(list, envs, gates, k - 1),
                         x \in DrawsOf(list, envs[k], list[k], gates)}

\* number of nodes the tick on `list` with draws r appends
CreatedCount(list, envs, r) ==
    Cardinality({i \in 1..Len(list) : ~Inert(list[i]) /\ BranchGuard(list, list[i], envs[i].E)})
    + Cardinality({i \in 1..Len(list) : ~Inert(list[i]) /\ GrowthGuard(list, list[i], r[i].gate)})

\* the draws the oracle may hand to a tick on `list`, the growth gates among
\* `gates`; the collection is kept within cap nodes
Oracle(list, envs, cap, gates) ==
    {r \in DrawSeqs(list, envs, gates, Len(list)) : Len(list) + CreatedCount(list, envs, r) <= cap}

-----------------------------------------------------------------------------
(* The tick effect: deps [time, paused, resources] *)

\* a variant of ClearTimeout that leaves the timeout pending
ClearTimeoutForgets(pending) == pending

\* the cleanup of the previous run: clearTimeout(timer) cancels the timeout
\* that run created, if it is still pending
ClearTimeout(pending) == IF pending > 0 THEN pending - 1 ELSE 0

\* a variant of TickEffectBody that returns without setting a timeout
TickEffectBodySkips(pending, p) == pending

\* the effect body: if (paused) return; const timer = setTimeout(..., 200)
TickEffectBody(pending, p) == IF p THEN pending ELSE pending + 1

\* a variant of RunTickEffect whose previous run returned no cleanup
RunTickEffectNoCleanup(pending, p) == TickEffectBody(pending, p)

\* a re-run of the effect after a change of its deps: cleanup, then body
RunTickEffect(pending, p) == TickEffectBody(ClearTimeout(pending), p)

-----------------------------------------------------------------------------
(* The paths effect: deps [nodes].  A path is [id, d]; d, the SVG path      *)
(* string "Mx,y Lx,y Lx,y ...", is kept as the sequence of its points.      *)

\* Array.prototype.find / findIndex on a predicate "id equals": the first
\* index whose id is wanted, 0 when there is none
FindIndexById(list, wanted) ==
    IF \E i \in 1..Len(list) : list[i].id = wanted
    THEN CHOOSE i \in 1..Len(list) :
            list[i].id = wanted /\ \A j \in 1..(i - 1) : list[j].id # wanted
    ELSE 0

\* a variant of AddToPaths that pushes a new path for every child
AddToPathsAlwaysNew(list, nodePaths, node) ==
    IF node.parent = Null THEN nodePaths
    ELSE LET at == FindIndexById(list, node.parent)
         IN  IF at = 0 THEN nodePaths
             ELSE Append(nodePaths, [id |-> list[at].id, d |-> << list[at].position, node.position >>])

\* the callback of nodes.forEach in the paths effect
AddToPaths(list, nodePaths, node) ==
    IF node.parent = Null THEN nodePaths
    ELSE LET at == FindIndexById(list, node.parent)
         IN  IF at = 0 THEN nodePaths
             ELSE LET parent == list[at]
                      pathIndex == FindIndexById(nodePaths, parent.id)
                  IN  IF pathIndex = 0
                      THEN Append(nodePaths, [id |-> parent.id,
                                              d |-> << parent.position, node.position >>])
                      ELSE [nodePaths EXCEPT ![pathIndex].d = Append(@, node.position)]

\* nodePaths after the callbacks of list[lo..hi], run one after the other on
\* nodePaths (the callbacks of list[1..mid] push at most mid paths)
RECURSIVE PathsRange(_, _, _, _)
PathsRange(list, nodePaths, lo, hi) ==
    IF lo > hi THEN nodePaths
    ELSE IF lo = hi THEN AddToPaths(list, nodePaths, list[lo])
    ELSE LET mid == (lo + hi) \div 2
             left == PathsRange(list, nodePaths, lo, mid)
         IN  IF Len(left) <= mid
             THEN PathsRange(list, left, mid + 1, hi)
             ELSE left

\* nodePaths after the callbacks of list[1..k], starting from []
NodePaths(list, k) == PathsRange(list, << >>, 1, k)

\* setPaths(nodePaths)
PathsEffect(list) == NodePaths(list, Len(list))

-----------------------------------------------------------------------------
(* State machine *)

CanvasWidth == 800
CanvasHeight == 600

\* the state once the initialization effect and the first run of the tick
\* effect on the initialized resources are committed
Init ==
    /\ width = CanvasWidth
    /\ height = CanvasHeight
    /\ nodes = << Seed(width, height) >>
    /\ resources = InitialResources(width, height)
    /\ paths = PathsEffect(nodes)
    /\ time = 0
    /\ paused = FALSE
    /\ timer = TickEffectBody(0, paused)

\* a variant of TimerFiresWith whose tick uses up the first resource
TimerFiresConsumes(cap, gates) ==
    /\ timer > 0
    /\ time < MaxTime
    /\ \E envs \in {Samples(nodes, resources, Len(nodes))} :
          \E r \in Oracle(nodes, envs, cap, gates) : nodes' = TickSampled(nodes, resources, envs, r)
    /\ paths' = PathsEffect(nodes')
    /\ time' = time + 1
    /\ timer' = TickEffectBody(timer - 1, paused)
    /\ resources' = Tail(resources)
    /\ UNCHANGED <<width, height, paused>>

\* the timeout fires: setTime(t => t + 1), setNodes(updater); the re-render
\* changes `time`, so the tick effect runs again (the cleanup finds its
\* timeout already fired), and `nodes`, so the paths effect runs again
TimerFiresWith(cap, gates) ==
    /\ timer > 0
    /\ time < MaxTime
    /\ \E envs \in {Samples(nodes, resources, Len(nodes))} :
          \E r \in Oracle(nodes, envs, cap, gates) : nodes' = TickSampled(nodes, resources, envs, r)
    /\ paths' = PathsEffect(nodes')
    /\ time' = time + 1
    /\ timer' = TickEffectBody(timer - 1, paused)
    /\ UNCHANGED <<width, height, resources, paused>>

TimerFires(cap) == TimerFiresWith(cap, Gates)

\* the pause button: onClick={() => setPaused(!paused)}; `paused` is a dep of
\* the tick effect
TogglePause ==
    /\ paused' = ~paused
    /\ timer' = RunTickEffect(timer, paused')
    /\ UNCHANGED <<width, height, nodes, resources, paths, time>>

Next == TimerFires(MaxNodes) \/ TogglePause

Spec == Init /\ [][Next]_vars

\* Runs in which the timers are served: a timeout that stays pending (it is
\* not cleared) fires, 200 ms after it was set.  TimeoutRuns is the callback
\* seen from the timer: it runs when a timeout is pending and starts with
\* setTime(t => t + 1); the steps of Next that satisfy it are the steps of
\* TimerFires, and it is enabled exactly when TimerFires is.
TimeoutRuns ==
    /\ timer > 0
    /\ time < MaxTime
    /\ time' = time + 1

LiveSpec == Spec /\ WF_time(TimeoutRuns)

-----------------------------------------------------------------------------
(* Runs from the first render: the state holds the useState initial values  *)
(* until the effects of the first commit have run.                          *)

\* useState([]), useState([]), useState([]), useState(0), useState(false);
\* no effect has run yet
Unmounted ==
    /\ width = CanvasWidth
    /\ height = CanvasHeight
    /\ nodes = << >>
    /\ resources = << >>
    /\ paths = << >>
    /\ time = 0
    /\ paused = FALSE
    /\ timer = 0

\* the effects of the first commit: the initialization effect sets nodes and
\* resources, the tick effect sets its first timeout; the re-render that
\* follows changes `resources` and `nodes`, so the tick effect and the paths
\* effect run again
Mount ==
    /\ nodes = << >>
    /\ nodes' = << Seed(width, height) >>
    /\ resources' = InitialResources(width, height)
    /\ paths' = PathsEffect(nodes')
    /\ timer' = RunTickEffect(TickEffectBody(timer, paused), paused)
    /\ UNCHANGED <<width, height, time, paused>>

\* the pause button exists once the first commit is done
MountNext == Mount \/ TimerFires(MaxNodes) \/ (nodes # << >> /\ TogglePause)

MountSpec == Unmounted /\ [][MountNext]_vars

-----------------------------------------------------------------------------
(* Runs from a mid-run collection: the updater applied to a bounded set of  *)
(* well-formed node collections (ids in creation order, one seed, every     *)
(* child younger than its live parent and within one growth step of it),    *)
(* with the scalar fields drawn from a small grid.                          *)

\* the world of these runs: the seed lies within sensing range of the light
StepWorlds == {<<200, 150>>}

\* age, distortion, coherence, temporalComplexity of a node of a mid-run collection
Profiles ==
    { [age |-> 0,  distortion |-> 0,    coherence |-> 1000, temporalComplexity |-> 0],
      [age |-> 5,  distortion |-> 2600, coherence |-> 1000, temporalComplexity |-> 40],
      [age |-> 6,  distortion |-> 2600, coherence |-> 1000, temporalComplexity |-> 300],
      [age |-> 6,  distortion |-> 2495, coherence |-> 500,  temporalComplexity |-> 300],
      [age |-> 10, distortion |-> 1000, coherence |-> 0,    temporalComplexity |-> 120],
      [age |-> 14, distortion |-> 3000, coherence |-> 150,  temporalComplexity |-> 500],
      [age |-> 15, distortion |-> 2600, coherence |-> 1000, temporalComplexity |-> 300],
      [age |-> 20, distortion |-> 2600, coherence |-> 1000, temporalComplexity |-> 300],
      [age |-> 21, distortion |-> 700,  coherence |-> 900,  temporalComplexity |-> 200] }

SampleNode(newId, parentId, px, py, profile) ==
    [id |-> newId,
     position |-> [x |-> px, y |-> py],
     energy |-> 500,
     coherence |-> profile.coherence,
     distortion |-> profile.distortion,
     temporalComplexity |-> profile.temporalComplexity,
     spatialComplexity |-> 500,
     parent |-> parentId,
     age |-> profile.age]

\* a child was created after its parent: it is younger, unless the parent's
\* age has stopped at 21
Younger(child, parentProfile) == parentProfile.age = 21 \/ child.age < parentProfile.age

\* the seed alone; the seed and a child 4 units to its right; these and a
\* child of the seed 4 units above it
SampleCollections(w, h) ==
    LET seed == Seed(w, h)
        sx == seed.position.x
        sy == seed.position.y
        n0(p) == SampleNode(0, Null, sx, sy, p)
        n1(p) == SampleNode(1, 0, sx + 4 * PosScale, sy, p)
        n2(p) == SampleNode(2, 0, sx, sy - 4 * PosScale, p)
    IN  {<< n0(p) >> : p \in Profiles}
        \cup {<< n0(pq[1]), n1(pq[2]) >> : pq \in {x \in Profiles \X Profiles : Younger(x[2], x[1])}}
        \cup {<< n0(p), n1(q), n2(q) >> :
                p \in {c \in Profiles : c.age >= 20}, q \in {c \in Profiles : c.age \in 6..14}}

StepInit ==
    /\ \E w \in StepWorlds : width = w[1] /\ height = w[2]
    /\ nodes \in SampleCollections(width, height)
    /\ resources = InitialResources(width, height)
    /\ paths = PathsEffect(nodes)
    /\ time = MaxTime - StepTicks
    /\ paused = FALSE
    /\ timer = TickEffectBody(0, paused)

StepNext == TimerFires(MaxStepNodes) \/ TogglePause

StepSpec == StepInit /\ [][StepNext]_vars

\* Runs from a mid-run collection with a random source whose growth draws
\* never exceed 0.5
NotAboveHalf == {g \in Gates : g <= 500}

LowDrawNext == TimerFiresWith(MaxStepNodes, NotAboveHalf) \/ TogglePause

LowDrawSpec == StepInit /\ [][LowDrawNext]_vars

-----------------------------------------------------------------------------
(* Runs from construction in which Math.random() passes the growth gate     *)
(* for the node created last and for no other node.                         *)

ChainTicks == 60

ChainDraws(list) ==
    { [i \in 1..Len(list) |-> [dir |-> NoDraw.dir,
                               gate |-> IF i = Len(list) THEN 750 ELSE 250]] }

ChainFires ==
    /\ timer > 0
    /\ time < ChainTicks
    /\ \E envs \in {Samples(nodes, resources, Len(nodes))} :
          \E r \in ChainDraws(nodes) : nodes' = TickSampled(nodes, resources, envs, r)
    /\ paths' = PathsEffect(nodes')
    /\ time' = time + 1
    /\ timer' = TickEffectBody(timer - 1, paused)
    /\ UNCHANGED <<width, height, resources, paused>>

ChainNext == ChainFires \/ TogglePause

ChainSpec == Init /\ [][ChainNext]_vars

\* Runs from construction in which, in each tick, Math.random() passes the
\* growth gate either for every node or for none.  No node comes near the
\* critical distortion in these runs, so no branch direction is drawn.
BurstTicks == 8

BurstGates == {250, 750}

BurstDraws(list) ==
    { [i \in 1..Len(list) |-> [dir |-> NoDraw.dir, gate |-> g]] : g \in BurstGates }

BurstFires ==
    /\ timer > 0
    /\ time < BurstTicks
    /\ \E envs \in {Samples(nodes, resources, Len(nodes))} :
          \E r \in BurstDraws(nodes) : nodes' = TickSampled(nodes, resources, envs, r)
    /\ paths' = PathsEffect(nodes')
    /\ time' = time + 1
    /\ timer' = TickEffectBody(timer - 1, paused)
    /\ UNCHANGED <<width, height, resources, paused>>

BurstNext == BurstFires \/ TogglePause

BurstSpec == Init /\ [][BurstNext]_vars

\* the sizes a re-run of the initialization effect is given
ResetWorlds == {<<200, 150>>, <<220, 150>>}

\* a variant of Reset in which the timeout of the previous run stays pending
ResetKeepsTimer ==
    /\ \E w \in ResetWorlds : width' = w[1] /\ height' = w[2]
    /\ nodes' = << Seed(width', height') >>
    /\ resources' = InitialResources(width', height')
    /\ paths' = PathsEffect(nodes')
    /\ timer' = TickEffectBody(timer, paused)
    /\ UNCHANGED <<time, paused>>

\* a re-run of the initialization effect (deps [width, height]):
\* setNodes([seed]), setResources(newResources); the re-render changes
\* `resources` and `nodes`, so the tick effect (cleanup, then body) and the
\* paths effect run again
Reset ==
    /\ \E w \in ResetWorlds : width' = w[1] /\ height' = w[2]
    /\ nodes' = << Seed(width', height') >>
    /\ resources' = InitialResources(width', height')
    /\ paths' = PathsEffect(nodes')
    /\ timer' = RunTickEffect(timer, paused)
    /\ UNCHANGED <<time, paused>>

ResetNext == StepNext \/ Reset

ResetSpec == StepInit /\ [][ResetNext]_vars

-----------------------------------------------------------------------------
(* Properties of the growth engine *)

\* the indices of the nodes a step appended
AppendedIdx == (Len(nodes) + 1)..Len(nodes')

\* the node was written by a tick of these runs (a sampled energy is never
\* the 0.5 the seed and the mid-run collections start with)
Touched(n) == n.energy # 500

StripId(n) == [n EXCEPT !.id = 0]

Range(f) == {f[i] : i \in DOMAIN f}

\* the orders in which the callbacks of a tick on n nodes could run
Orders(n) == {f \in [1..n -> 1..n] : \A i, j \in 1..n : f[i] = f[j] => i = j}

\* the children the tick on the snapshot decides for list[i]
DecidedChildren(list, envs, r, i) ==
    IF Inert(list[i]) THEN 0
    ELSE (IF BranchGuard(list, list[i], envs[i].E) THEN 1 ELSE 0)
         + (IF GrowthGuard(list, list[i], r[i].gate) THEN 1 ELSE 0)

\* C1: every decision of a tick reads the collection as it stood before the
\* tick: for every draw of the random source, each node gets exactly the
\* children its guards decide on the pre-tick collection, and running the
\* callbacks in any other order gives the same updated nodes and the same
\* created nodes (up to the ids, which follow the order of creation)
SnapshotSemantics ==
    \A envs \in {Samples(nodes, resources, Len(nodes))} :
        \A r \in Oracle(nodes, envs, MaxStepNodes, Gates) :
            LET n == Len(nodes)
                acc == ProcessInOrder(nodes, resources, envs, r, ForEachOrder(nodes), n)
            IN  /\ \A i \in 1..n :
                      Cardinality({j \in 1..Len(acc.nodesToAdd) : acc.nodesToAdd[j].parent = nodes[i].id})
                          = DecidedChildren(nodes, envs, r, i)
                /\ \A order \in Orders(n) :
                      LET other == ProcessInOrder(nodes, resources, envs, r, order, n)
                      IN  /\ other.newNodes = acc.newNodes
                          /\ Len(other.nodesToAdd) = Len(acc.nodesToAdd)
                          /\ {StripId(c) : c \in Range(other.nodesToAdd)}
                                 = {StripId(c) : c \in Range(acc.nodesToAdd)}

\* two nodes of one collection created nodes in the same tick
SnapshotSemanticsWitness ==
    \E a, b \in 1..Len(nodes) :
        /\ nodes[a].age = 0 /\ nodes[b].age = 0
        /\ Touched(nodes[a]) /\ Touched(nodes[b])
        /\ nodes[a].parent # nodes[b].parent

\* C2: the ids of the collection are the positions 0, 1, ..., n - 1, so they
\* are pairwise distinct, also after a tick that created several nodes
IdsArePositions ==
    /\ \A i \in 1..Len(nodes) : nodes[i].id = i - 1
    /\ \A i, j \in 1..Len(nodes) : nodes[i].id = nodes[j].id => i = j

\* one node got a branch child and a growth child in the same tick
IdsArePositionsWitness ==
    \E a, b \in 1..Len(nodes) :
        /\ a < b
        /\ nodes[a].age = 0 /\ nodes[b].age = 0
        /\ Touched(nodes[a]) /\ Touched(nodes[b])
        /\ nodes[a].parent = nodes[b].parent
        /\ nodes[a].distortion = 0 /\ nodes[b].distortion > D_CRITICAL

\* C3: exactly one node has no parent, the seed with id 0 at the head of the
\* collection; every other node names a parent
OneSeed ==
    /\ nodes[1].parent = Null
    /\ nodes[1].id = 0
    /\ \A i \in 2..Len(nodes) : nodes[i].parent # Null
    /\ Cardinality({i \in 1..Len(nodes) : nodes[i].parent = Null}) = 1

\* a tick created a child of the seed
OneSeedWitness ==
    \E i \in 2..Len(nodes) :
        nodes[i].age = 0 /\ Touched(nodes[i]) /\ nodes[i].parent = nodes[1].id

\* following the parent fields from list[j] arrives at the seed
RECURSIVE ReachesSeed(_, _, _)
ReachesSeed(list, j, fuel) ==
    IF list[j].parent = Null THEN j = 1
    ELSE /\ fuel > 0
         /\ list[j].parent + 1 \in 1..Len(list)
         /\ ReachesSeed(list, list[j].parent + 1, fuel - 1)

\* C4: the parent of a node is the id of a node that was in the collection
\* before the tick that created it; it is smaller than the node's own id, and
\* the parent fields lead from every node to the seed
ParentsPreexist ==
    [][/\ \A j \in AppendedIdx :
            \E i \in 1..Len(nodes) : nodes[i].id = nodes'[j].parent
       /\ \A j \in 2..Len(nodes') :
            /\ nodes'[j].parent \in 0..(nodes'[j].id - 1)
            /\ nodes'[nodes'[j].parent + 1].id = nodes'[j].parent
       /\ \A j \in 1..Len(nodes') : ReachesSeed(nodes', j, Len(nodes'))]_vars

\* a tick created a child of a node that is not the seed
ParentsPreexistWitness ==
    \E j \in 1..Len(nodes) :
        nodes[j].age = 0 /\ Touched(nodes[j]) /\ nodes[j].parent > 0

\* C5: a node is created with age 0; a tick adds 1 to the age of a node
\* whose age is at most 20 and leaves an age above 20 alone, so ages stay in
\* 0..21 and the age is min(21, ticks since creation)
AgeRule ==
    [][/\ Len(nodes') >= Len(nodes)
       /\ \A i \in 1..Len(nodes) :
            nodes'[i].age = IF time' = time THEN nodes[i].age
                            ELSE IF nodes[i].age <= 20 THEN nodes[i].age + 1
                            ELSE nodes[i].age
       /\ \A j \in AppendedIdx : nodes'[j].age = 0
       /\ \A j \in 1..Len(nodes') : nodes'[j].age \in 0..21
       /\ nodes'[1].age = Min(21, time')
       /\ \A j \in 2..Len(nodes') : nodes'[j].age <= Min(21, time' - 1)]_vars

\* the seed has stopped at 21 while a younger node is still counting
AgeRuleWitness ==
    /\ time > 21
    /\ nodes[1].age = 21
    /\ \E j \in 2..Len(nodes) : nodes[j].age \in 1..20

\* C6: a node with age above 20 is inert: a tick leaves its record as it
\* is, position included, and gives it no child
InertFrame ==
    [][\A i \in 1..Len(nodes) :
          nodes[i].age > 20 =>
              /\ i <= Len(nodes')
              /\ nodes'[i] = nodes[i]
              /\ \A j \in AppendedIdx : nodes'[j].parent # nodes[i].id]_vars

\* a tick ran with the seed inert and created a node
InertFrameWitness ==
    /\ time > 21
    /\ nodes[1].age = 21
    /\ \E j \in 2..Len(nodes) : nodes[j].age = 0

\* C7: no node ever has a negative coherence
CoherenceNonNegative == \A i \in 1..Len(nodes) : nodes[i].coherence >= 0

\* a tick took more coherence from a node than it had, and stored 0
CoherenceNonNegativeWitness ==
    \E i \in 1..Len(nodes) :
        /\ Touched(nodes[i])
        /\ nodes[i].age = 15
        /\ nodes[i].coherence = 0
        /\ nodes[i].distortion > 3000

\* C8: a node with three or more nodes within 2 units of it (itself
\* counted, on the pre-tick collection) does not branch: the tick does not
\* lower its distortion, and the only child it can get is one growth child,
\* which carries the node's pre-tick coherence and distortion
CrowdingBlocksBranching ==
    [][\A i \in 1..Len(nodes) :
          Len(nearbyNodes(nodes, nodes[i].position)) >= 3 =>
              /\ nodes'[i].distortion >= nodes[i].distortion
              /\ Cardinality({j \in AppendedIdx : nodes'[j].parent = nodes[i].id}) <= 1
              /\ \A j \in AppendedIdx :
                    nodes'[j].parent = nodes[i].id =>
                        /\ nodes'[j].coherence = nodes[i].coherence
                        /\ nodes'[j].distortion = nodes[i].distortion]_vars

\* a tick updated a crowded node that met the other branching conditions,
\* and its distortion is still above the threshold
CrowdingBlocksBranchingWitness ==
    \E i \in 1..Len(nodes) :
        /\ Touched(nodes[i])
        /\ nodes[i].distortion > D_CRITICAL
        /\ nodes[i].energy > 300
        /\ nodes[i].age \in 7..20
        /\ Len(nearbyNodes(nodes, nodes[i].position)) >= 3

\* C9: when no draw of the growth gate is above 0.5, no growth node is ever
\* created: every node a tick appends is the branch child of a node whose
\* distortion was above the threshold and has been reset
NoGrowthOnLowDraws ==
    [][\A j \in AppendedIdx :
          \E i \in 1..Len(nodes) :
              /\ nodes'[j].parent = nodes[i].id
              /\ nodes[i].distortion > D_CRITICAL
              /\ nodes'[i].distortion = 500
              /\ nodes'[j].coherence = 1000
              /\ nodes'[j].distortion = 0
              /\ nodes'[j].temporalComplexity = nodes[i].temporalComplexity
              /\ \A k \in AppendedIdx : nodes'[k].parent = nodes[i].id => k = j]_vars

\* a node that met the other growth conditions branched, and got no growth
\* child
NoGrowthOnLowDrawsWitness ==
    \E j \in 2..Len(nodes) :
        /\ nodes[j].age = 0 /\ Touched(nodes[j])
        /\ LET parent == nodes[nodes[j].parent + 1]
           IN  /\ parent.distortion = 500
               /\ parent.coherence > 200
               /\ parent.age <= 15

-----------------------------------------------------------------------------
(* Runs on other resource sets and positions: one node at a position of a   *)
(* grid that reaches beyond the canvas, and resources that push the fields  *)
(* beyond both ends of [0.1, 1.0].                                          *)

FieldXs == {-20, 40, 100, 160, 175, 230}
FieldYs == {-10, 30, 75, 100, 160}

\* the resources of the initialization; none; lights and supports heaped on
\* one point; a light of negative intensity next to heaped obstacles
FieldResourceSets(w, h) ==
    { InitialResources(w, h),
      << >>,
      << Resource(100 * PosScale, 75 * PosScale, 1000, "light"),
         Resource(100 * PosScale, 75 * PosScale, 900, "light"),
         Resource(100 * PosScale, 75 * PosScale, 700, "support"),
         Resource(100 * PosScale, 75 * PosScale, 700, "support") >>,
      << Resource(40 * PosScale, 30 * PosScale, -1000, "light"),
         Resource(40 * PosScale, 30 * PosScale, 900, "obstacle"),
         Resource(45 * PosScale, 30 * PosScale, 800, "obstacle") >> }

FieldInit ==
    /\ \E w \in StepWorlds : width = w[1] /\ height = w[2]
    /\ resources \in FieldResourceSets(width, height)
    /\ \E x \in FieldXs, y \in FieldYs :
          nodes = << SampleNode(0, Null, x * PosScale, y * PosScale,
                                [age |-> 0, distortion |-> 0, coherence |-> 1000,
                                 temporalComplexity |-> 0]) >>
    /\ paths = PathsEffect(nodes)
    /\ time = MaxTime - StepTicks
    /\ paused = FALSE
    /\ timer = TickEffectBody(0, paused)

FieldSpec == FieldInit /\ [][StepNext]_vars

InUnitRange(v) == v >= 100 /\ v <= 1000

\* C13: calculateEnergy and calculateSpatialComplexity return a value in
\* [0.1, 1.0] at every position and for every resource set, and so do the
\* energy and spatialComplexity every node stores
FieldsClamped ==
    \A i \in 1..Len(nodes) :
        /\ InUnitRange(nodes[i].energy)
        /\ InUnitRange(nodes[i].spatialComplexity)
        /\ InUnitRange(calculateEnergy(nodes[i].position, resources))
        /\ InUnitRange(calculateSpatialComplexity(nodes[i].position, resources))

\* a tick stored the clamped values where the sums leave the range at both ends
FieldsClampedWitness ==
    \E i \in 1..Len(nodes) :
        /\ nodes[i].energy = 1000
        /\ EnergySum(nodes[i].position, resources, Len(resources)) > 1000
        /\ nodes[i].spatialComplexity = 100
        /\ ComplexitySum(nodes[i].position, resources, Len(resources)) < 100

CountType(res, t) == Cardinality({i \in 1..Len(res) : res[i].type = t})

\* C14: the number of nodes never exceeds a fixed bound, whatever the number
\* of ticks: the bound tried is the cap on the active nodes
NodeCountBounded == Len(nodes) <= ActiveCap

\* C15: a re-run of the initialization (the only step that changes nodes,
\* resources or the size without a tick) leaves exactly the seed (id 0,
\* age 0, coherence 1.0, distortion 0.0, no parent, at (width / 2,
\* height - 50)), the initial resources of the size, no path, and at most
\* one pending timeout, none when paused
ResetLeavesSeed ==
    [][(time' = time /\ (nodes' # nodes \/ resources' # resources \/ width' # width)) =>
          /\ Len(nodes') = 1
          /\ nodes'[1].id = 0
          /\ nodes'[1].age = 0
          /\ nodes'[1].coherence = 1000
          /\ nodes'[1].distortion = 0
          /\ nodes'[1].parent = Null
          /\ nodes'[1].position = [x |-> (width' * PosScale) \div 2, y |-> (height' - 50) * PosScale]
          /\ Len(resources') = 57
          /\ resources' = InitialResources(width', height')
          /\ CountType(resources', "light") = 1
          /\ CountType(resources', "obstacle") = 2
          /\ paths' = << >>
          /\ timer' = IF paused' THEN 0 ELSE 1]_vars

\* the initialization was run again after a tick, on another size
ResetLeavesSeedWitness ==
    /\ width = 220
    /\ time > MaxTime - StepTicks
    /\ Len(nodes) = 1
    /\ nodes[1].age = 0
    /\ timer = 1

\* the positions in the collection of the children of the node with id pid
ChildrenOf(pid) == {i \in 1..Len(nodes) : nodes[i].parent = pid}

Least(S) == CHOOSE i \in S : \A j \in S : i <= j

\* C17: the paths are determined by the nodes: one path for every node that
\* has a child, in the order of the first children in the collection; a path
\* starts at the parent's position and goes through the positions of all
\* its children in the order of the collection; a node without children has
\* no path
PathsFollowNodes ==
    /\ \A k \in 1..Len(paths) :
          LET kids == ChildrenOf(paths[k].id)
              d == paths[k].d
          IN  /\ kids # {}
              /\ Len(d) = Cardinality(kids) + 1
              /\ \E i \in 1..Len(nodes) : nodes[i].id = paths[k].id /\ d[1] = nodes[i].position
              /\ \A i \in kids : d[2 + Cardinality({j \in kids : j < i})] = nodes[i].position
    /\ \A i \in 1..Len(nodes) :
          ChildrenOf(nodes[i].id) # {} =>
              Cardinality({k \in 1..Len(paths) : paths[k].id = nodes[i].id}) = 1
    /\ \A k1, k2 \in 1..Len(paths) :
          k1 < k2 => Least(ChildrenOf(paths[k1].id)) < Least(ChildrenOf(paths[k2].id))

\* after a tick, one node has two children and another node has a child
PathsFollowNodesWitness ==
    /\ Len(paths) >= 2
    /\ \E k \in 1..Len(paths) : Len(paths[k].d) >= 3
    /\ \E i \in 1..Len(nodes) : nodes[i].age = 0 /\ Touched(nodes[i])

\* the step is a tick
IsTick == time' = time + 1

\* the tick reset the distortion of nodes[i] and appended a child of it with
\* the fields of a branch child (only a branch lowers a distortion)
Branched(i) ==
    /\ nodes'[i].distortion = 500
    /\ nodes'[i].distortion < nodes[i].distortion
    /\ \E j \in AppendedIdx :
          /\ nodes'[j].parent = nodes[i].id
          /\ nodes'[j].coherence = 1000
          /\ nodes'[j].distortion = 0

\* the nodes of the pre-tick collection within 20 units of nodes[i], itself included
NearCount(i) ==
    Cardinality({j \in 1..Len(nodes) : Within(nodes[j].position, nodes[i].position, 20)})

\* the energy, age and crowding conditions of branching hold for nodes[i]
\* in the tick: the sampled energy (stored by the tick) is above 0.3, the
\* pre-tick age is above 5 (and the node is live), and fewer than `cap` nodes
\* of the pre-tick collection are within 20 units
OtherBranchConditions(i, cap) ==
    /\ nodes[i].age \in 6..20
    /\ nodes'[i].energy > 300
    /\ NearCount(i) < cap

ReadyToBranch(i) ==
    /\ nodes[i].distortion > D_CRITICAL
    /\ nodes[i].age \in 6..20
    /\ nodes'[i].energy > 300

BranchChildren(i) ==
    {j \in AppendedIdx :
        /\ nodes'[j].parent = nodes[i].id
        /\ nodes'[j].coherence = 1000
        /\ nodes'[j].distortion = 0
        /\ nodes'[j].age = 0
        /\ nodes'[j].temporalComplexity = nodes[i].temporalComplexity}

\* C20: when a node branches in a tick (its pre-tick distortion, the
\* sampled energy, its pre-tick age and the crowding count meet the
\* condition), exactly one branch child is appended (parent = the node,
\* coherence 1.0, distortion 0.0, age 0, the parent's pre-tick
\* temporalComplexity); any other child of the node in that tick is its
\* growth child; the node's distortion after the tick is 0.5 and its
\* coherence, temporalComplexity and age are those of the base update
BranchEffects ==
    [][\A i \in 1..Len(nodes) :
          (IsTick /\ ReadyToBranch(i) /\ NearCount(i) < 3) =>
              LET d == Sample(nodes[i], resources).d
              IN  /\ Cardinality(BranchChildren(i)) = 1
                  /\ \A j \in AppendedIdx \ BranchChildren(i) :
                        nodes'[j].parent = nodes[i].id =>
                            nodes'[j].distortion = nodes[i].distortion
                  /\ Cardinality({j \in AppendedIdx : nodes'[j].parent = nodes[i].id}) <= 2
                  /\ nodes'[i].distortion = 500
                  /\ nodes'[i].coherence = Max(0, nodes[i].coherence + d.dH)
                  /\ nodes'[i].temporalComplexity = nodes[i].temporalComplexity + d.dT
                  /\ nodes'[i].age = nodes[i].age + 1]_vars

\* a node has branched: its distortion is the reset value, its coherence
\* and temporalComplexity have moved, and its branch child carries the
\* temporalComplexity from before the tick
BranchEffectsWitness ==
    \E i, j \in 1..Len(nodes) :
        /\ Touched(nodes[i])
        /\ nodes[i].distortion = 500
        /\ nodes[i].coherence < 1000
        /\ nodes[i].age = 7
        /\ nodes[j].parent = nodes[i].id
        /\ nodes[j].age = 0
        /\ nodes[j].coherence = 1000
        /\ nodes[j].distortion = 0
        /\ nodes[j].temporalComplexity < nodes[i].temporalComplexity

\* C11: at most one timeout is pending at any time, also across the two
\* runs of the tick effect at the first commit, a tick and a pause toggle;
\* the tick counter moves only by one, only when a pending timeout fires,
\* and with it every live node is updated exactly once; the next timeout is
\* set only by the step that completes the tick
SingleTimer ==
    [][/\ timer \in 0..1
       /\ timer' \in 0..1
       /\ time' \in {time, time + 1}
       /\ time' = time + 1 =>
             /\ timer = 1
             /\ ~paused
             /\ timer' = 1
             /\ \A i \in 1..Len(nodes) :
                   nodes'[i].age = IF Inert(nodes[i]) THEN nodes[i].age ELSE nodes[i].age + 1
       /\ (nodes # << >> /\ nodes' # nodes) => time' = time + 1]_vars

\* a timeout is pending after more than one tick
SingleTimerWitness ==
    /\ time > 1
    /\ timer = 1
    /\ ~paused
    /\ Len(nodes) > 1

\* C12: with width 800 and height 600, the first commit leaves one node
\* (id 0, position (400, 550), coherence 1.0, distortion 0.0, no parent,
\* age 0) and resources with one light and two obstacles, the rest
\* supports, at tick 0; no tick is applied to the empty collection
InitialState ==
    [][/\ nodes = << >> =>
             /\ width = 800 /\ height = 600
             /\ Len(nodes') = 1
             /\ nodes'[1].id = 0
             /\ nodes'[1].position = [x |-> 400 * PosScale, y |-> 550 * PosScale]
             /\ nodes'[1].coherence = 1000
             /\ nodes'[1].distortion = 0
             /\ nodes'[1].parent = Null
             /\ nodes'[1].age = 0
             /\ CountType(resources', "light") = 1
             /\ CountType(resources', "obstacle") = 2
             /\ CountType(resources', "support") = Len(resources') - 3
             /\ time' = 0
       /\ time' # time => (nodes # << >> /\ resources # << >>)]_vars

\* the state the first commit leaves, before any tick
InitialStateWitness ==
    /\ time = 0
    /\ Len(nodes) = 1
    /\ Len(resources) > 3
    /\ timer = 1

\* C16: once set by the initialization, the resources are never changed by
\* a tick, a pause or resume, or a recomputation of the paths
ResourcesFixed ==
    [][resources # << >> => resources' = resources]_vars

\* ticks, a recomputation of the paths and a pause have happened
ResourcesFixedWitness ==
    /\ time > 1
    /\ paused
    /\ Len(paths) > 0
    /\ resources = InitialResources(width, height)

\* C21: in every tick the distortion of every node after the tick is at
\* least its distortion before the tick, unless the node branched in that
\* tick (its pre-tick distortion, the sampled energy, its pre-tick age and
\* the crowding count met the branching condition), in which case it is
\* exactly 0.5; so the distortion of a node that never branches never
\* decreases from one state to the next
DistortionMonotone ==
    [][\A i \in 1..Len(nodes) :
          IsTick =>
              IF ReadyToBranch(i) /\ NearCount(i) < 3
              THEN nodes'[i].distortion = 500
              ELSE nodes'[i].distortion >= nodes[i].distortion]_vars

\* a tick has reset the distortion of a node that branched and has raised
\* the distortion of another node, which did not branch
DistortionMonotoneWitness ==
    \E i, j, k \in 1..Len(nodes) :
        /\ Touched(nodes[i]) /\ Touched(nodes[k])
        /\ nodes[i].distortion = 500
        /\ nodes[j].parent = nodes[i].id /\ nodes[j].age = 0 /\ nodes[j].distortion = 0
        /\ nodes[k].age = 7
        /\ nodes[k].distortion > 2495 /\ nodes[k].distortion < D_CRITICAL + 100

\* the children a tick appended for nodes[i] with the coherence and the
\* distortion of a growth child (a branch child has distortion 0, which a
\* branching node never has)
GrowthChildren(i) ==
    {j \in AppendedIdx :
        /\ nodes'[j].parent = nodes[i].id
        /\ nodes'[j].coherence = nodes[i].coherence
        /\ nodes'[j].distortion = nodes[i].distortion}

\* dT of nodes[i] in the tick
TickDT(i) == Sample(nodes[i], resources).d.dT

ActiveCount == Cardinality({i \in 1..Len(nodes) : nodes[i].age < 15})

\* C25: in every reachable state at most 50 nodes have age < 15
ActiveCapped == ActiveCount <= ActiveCap

\* C23: growth nodes are created in a tick only if the pre-tick collection
\* holds fewer than 50 nodes with age < 15, and only by nodes with age < 15
\* and coherence > 0.2, each creating one growth node at most; so a tick
\* creates at most 49 growth nodes, and the collection grows in a tick by no
\* more than these and one further child for each node of age 6..20
GrowthPerTickBounded ==
    [][IsTick =>
          LET grown == {i \in 1..Len(nodes) : GrowthChildren(i) # {}}
              growth == UNION {GrowthChildren(i) : i \in 1..Len(nodes)}
              branchable == {i \in 1..Len(nodes) : nodes[i].age \in 6..20}
          IN  /\ growth # {} => ActiveCount < ActiveCap
              /\ \A i \in grown :
                    /\ nodes[i].age < 15
                    /\ nodes[i].coherence > 200
                    /\ Cardinality(GrowthChildren(i)) = 1
              /\ Cardinality(growth) <= ActiveCap - 1
              /\ Len(nodes') <= Len(nodes) + Cardinality(grown) + Cardinality(branchable)
              /\ Len(nodes') <= Len(nodes) + (ActiveCap - 1) + Cardinality(branchable)]_vars

\* after a tick in which 32 nodes grew at once, a tick has run on a
\* collection with 50 or more nodes of age < 15 and has created nothing
GrowthPerTickBoundedWitness ==
    /\ ActiveCount >= ActiveCap
    /\ Len(nodes) = 64
    /\ \A i \in 1..Len(nodes) : nodes[i].age >= 1 /\ Touched(nodes[i])

\* C24: while the simulation is not paused a tick eventually fires: the
\* tick counter moves by single increments only, and from every state with
\* the counter below the bound of these runs in which paused is false, the
\* counter reaches its next value (the other parity) unless the simulation is
\* paused first; this holds after a resume and when every node has become inert
TicksKeepComing ==
    /\ [][time' \in {time, time + 1}]_vars
    /\ \A b \in {0, 1} :
          (~paused /\ time < MaxTime /\ time % 2 = b) ~> (paused \/ time % 2 = 1 - b)

\* the tick counter has advanced after every node became inert
TicksKeepComingWitness ==
    /\ ~paused
    /\ timer = 1
    /\ time > 21
    /\ \A i \in 1..Len(nodes) : nodes[i].age > 20

\* nodes[i] has a child in the pre-tick collection
HasChild(i) == \E j \in 1..Len(nodes) : nodes[j].parent = nodes[i].id

\* C26: every node a tick creates lies within 5 units of its parent (to the
\* resolution of the positions) and no tick moves a node; so a node other
\* than the seed that has a child counts itself, its parent and its child
\* among the nodes within 20 units and does not branch: a node that branches
\* has no child, or is the seed with at most one other node nearby
ChildrenStayClose ==
    [][IsTick =>
          /\ \A j \in AppendedIdx :
                /\ nodes'[j].parent \in 0..(Len(nodes) - 1)
                /\ Distance(nodes'[j].position, nodes[nodes'[j].parent + 1].position)
                      <= GROWTH_RATE * PosScale
          /\ \A i \in 1..Len(nodes) :
                /\ nodes'[i].position = nodes[i].position
                /\ (nodes[i].parent # Null /\ HasChild(i)) =>
                      (NearCount(i) >= 3 /\ ~Branched(i))
                /\ Branched(i) =>
                      \/ ~HasChild(i)
                      \/ (nodes[i].parent = Null /\ NearCount(i) - 1 <= 1)]_vars

\* a node other than the seed went into a tick with a child, a distortion
\* above 2.5, an age above 5 and an energy above 0.3, and came out of it
\* without a reset of its distortion
ChildrenStayCloseWitness ==
    \E i, j \in 1..Len(nodes) :
        /\ nodes[i].parent # Null
        /\ Touched(nodes[i])
        /\ nodes[i].age = 8
        /\ nodes[i].energy > 300
        /\ nodes[i].distortion > D_CRITICAL + 5
        /\ nodes[j].parent = nodes[i].id
        /\ nodes[j].age = 1

\* the nodes a tick appended with nodes[i] as parent
Kids(i) == {j \in AppendedIdx : nodes'[j].parent = nodes[i].id}

\* the growth children among them: when nodes[i] branches, its branch child
\* is pushed first and any further child is its growth child
GrowthKids(i) ==
    IF ReadyToBranch(i) /\ NearCount(i) < 3 /\ Kids(i) # {}
    THEN Kids(i) \ {Least(Kids(i))}
    ELSE Kids(i)

\* C27: a growth child has age 0, the growing node as parent, and the
\* coherence and the distortion the growing node had before the tick; when
\* a node branches and grows in the same tick, it ends the tick with
\* distortion 0.5 while its growth child carries its pre-tick distortion,
\* which is above 2.5
GrowthChildInherits ==
    [][\A i \in 1..Len(nodes) :
          IsTick =>
              /\ \A j \in GrowthKids(i) :
                    /\ nodes'[j].age = 0
                    /\ nodes'[j].parent = nodes[i].id
                    /\ nodes'[j].coherence = nodes[i].coherence
                    /\ nodes'[j].distortion = nodes[i].distortion
              /\ (ReadyToBranch(i) /\ NearCount(i) < 3 /\ GrowthKids(i) # {}) =>
                    /\ nodes'[i].distortion = 500
                    /\ \A j \in GrowthKids(i) : nodes'[j].distortion > D_CRITICAL]_vars

\* a node has branched and grown in one tick: its distortion is 0.5, one
\* of its new children is a branch child and the other carries a distortion
\* above 2.5
GrowthChildInheritsWitness ==
    \E i, j, k \in 1..Len(nodes) :
        /\ Touched(nodes[i])
        /\ nodes[i].distortion = 500
        /\ nodes[i].coherence < 1000
        /\ nodes[j].parent = nodes[i].id /\ nodes[j].age = 0
        /\ nodes[j].distortion = 0 /\ nodes[j].coherence = 1000
        /\ nodes[k].parent = nodes[i].id /\ nodes[k].age = 0
        /\ nodes[k].distortion > D_CRITICAL /\ nodes[k].coherence = 1000
        /\ j < k

\* C28: the node collection is append-only between resets: a tick removes
\* no node, leaves every existing node at its place in the list with its id,
\* position and parent, and appends the nodes it creates (age 0, ids beyond
\* the existing ones) after all existing nodes; the list gets shorter only
\* by a reset, which leaves the seed alone
AppendOnly ==
    [][/\ IsTick =>
             /\ Len(nodes') >= Len(nodes)
             /\ \A i \in 1..Len(nodes) :
                   /\ nodes'[i].id = nodes[i].id
                   /\ nodes'[i].position = nodes[i].position
                   /\ nodes'[i].parent = nodes[i].parent
             /\ \A j \in AppendedIdx :
                   /\ nodes'[j].age = 0
                   /\ nodes'[j].id = j - 1
                   /\ \A i \in 1..Len(nodes) : nodes[i].id # nodes'[j].id
       /\ Len(nodes') < Len(nodes) =>
             (time' = time /\ nodes' = << Seed(width', height') >>)]_vars

\* ticks have updated the existing nodes and appended two nodes after them
AppendOnlyWitness ==
    /\ Len(nodes) = 4
    /\ \A i \in 1..Len(nodes) : Touched(nodes[i])
    /\ nodes[1].age > 1 /\ nodes[2].age > 1
    /\ nodes[3].age = 1
    /\ nodes[4].age = 0

\* every node of the collection has age greater than 20
AllInert == nodes # << >> /\ \A i \in 1..Len(nodes) : nodes[i].age > 20

\* C29: once every node has age greater than 20, every step leaves the node
\* collection and the path list as they are (so every node keeps its age
\* above 20 and the same holds of the next step, forever), while ticks go on
\* incrementing the tick counter; the only step that changes the collection
\* is a reset, which leaves the seed alone
QuiescencePermanent ==
    [][AllInert =>
          \/ /\ nodes' = nodes
             /\ paths' = paths
             /\ time' \in {time, time + 1}
          \/ /\ nodes' = << Seed(width', height') >>
             /\ time' = time]_vars

\* two ticks have run on a collection of two inert nodes with a path
QuiescencePermanentWitness ==
    /\ AllInert
    /\ Len(nodes) = 2
    /\ Len(paths) = 1
    /\ time = MaxTime
    /\ ~paused

=============================================================================
